---- MODULE Spec2Model ----
(***************************************************************************)
(* Model of banking_api_client.py: the BankingAPIClient gateway (scoped    *)
(* transport, authenticate, the five authenticated fetches, each in a      *)
(* blocking and a suspending form) and the BankingDataCollector            *)
(* (collect_all_data / collect_all_data_async).                            *)
(*                                                                         *)
(* One caller owns the gateway: a call is started only when no other call  *)
(* of that gateway is running.  A collect call is modelled statement by    *)
(* statement, each request being issued and completed in separate steps,   *)
(* so that the states in between are visible.  The single fetches and      *)
(* authenticate are one step each.                                         *)
(*                                                                         *)
(* Optional values (Python None or an object) are sequences of length 0    *)
(* or 1.  JSON objects are functions from key strings to values.           *)
(***************************************************************************)
EXTENDS Integers, Sequences, FiniteSets, TLC

VARIABLES
    use_async,    \* BankingAPIClient.use_async
    session,      \* BankingAPIClient.session: "None", "open" or "closed"
    token,        \* BankingAPIClient.token ("None" when unset)
    token_type,   \* BankingAPIClient.token_type
    scope,        \* the with-block the caller is in: "none", "with", "async with"
    cpc,          \* next statement of the running collect call
    ci,           \* loop position of the collect call (1-based index in accounts)
    identity,     \* collect's local `identity` (optional)
    accounts,     \* the list object get_accounts returned, as it is now (optional)
    returned,     \* what that list held at the moment get_accounts returned it (optional)
    log,          \* the requests of the current or most recent call, in issue order
    outcome       \* the current or most recent call and how it ended

vars == <<use_async, session, token, token_type, scope, cpc, ci, identity,
          accounts, returned, log, outcome>>

gateway == <<use_async, session, token, token_type>>

----------------------------------------------------------------------------
(* Bounds and value sets *)

MaxAccounts == 3

None == "None"

\* The account records the server holds, each with its own id; every third
\* one has a field beyond the id.
AccountRecord(k) ==
    IF k % 3 = 0 THEN [id |-> "a" \o ToString(k), name |-> "n"]
    ELSE [id |-> "a" \o ToString(k)]

AccountIds == {AccountRecord(k).id : k \in 1..MaxAccounts}

AccountRecords == {AccountRecord(k) : k \in 1..MaxAccounts}

\* The account lists the server may send: the first n of its records, in
\* ascending or in descending order, n up to MaxAccounts.
AccountLists ==
    {[k \in 1..n |-> AccountRecord(k)] : n \in 0..MaxAccounts}
        \cup {[k \in 1..n |-> AccountRecord(MaxAccounts + 1 - k)] : n \in 0..MaxAccounts}

IdentityVals == {[id |-> "u1"], [id |-> "u2"]}
BalanceVals == {<<>>, <<[amount |-> 100, currency |-> "EUR"]>>}
TransactionVals == {<<>>, <<[id |-> "tx1"]>>}

Absent == "absent"
AccessTokenOpts == {Absent, "", "t1", "t2"}
TokenTypeOpts == {Absent, "bearer", "mac"}

\* The JSON object of a token response: each key present or not.
AuthBody(a, t) ==
    [k \in (IF a = Absent THEN {} ELSE {"access_token"})
           \cup (IF t = Absent THEN {} ELSE {"token_type"})
       |-> IF k = "access_token" THEN a ELSE t]

AuthBodies == {AuthBody(a, t) : a \in AccessTokenOpts, t \in TokenTypeOpts}

StatusCodes == {200, 401}

FetchOps == {"get_identity", "get_accounts", "get_account", "get_balances",
             "get_transactions"}

\* The decoded values a server may send for an operation.
Values(op) ==
    CASE op = "authenticate" -> AuthBodies
      [] op = "get_identity" -> IdentityVals
      [] op = "get_accounts" -> AccountLists
      [] op = "get_account" -> AccountRecords
      [] op = "get_balances" -> BalanceVals
      [] op = "get_transactions" -> TransactionVals

\* A response: a status code and a body, <<v>> when it is the JSON text of v
\* and <<>> when it is not valid JSON.
Responses(op) ==
    {[code |-> c, body |-> b] : c \in StatusCodes,
                                b \in {<<>>} \cup {<<v>> : v \in Values(op)}}

----------------------------------------------------------------------------
(* Helpers of the gateway *)

\* dict.get(key, default)
Get(d, k, default) == IF k \in DOMAIN d THEN d[k] ELSE default

Truthy_notNone(t) == t # None

\* Python truth value of self.token
Truthy(t) == t # None /\ t # ""

SetItem_replace(d, key, val) == [k \in {key} |-> val]

\* d[key] = val on a dict
SetItem(d, key, val) == [k \in DOMAIN d \cup {key} |-> IF k = key THEN val ELSE d[k]]

ModeCheck_missing(isAsyncForm) == TRUE

\* The first statement of every operation: the blocking form refuses a
\* suspending-mode instance and the suspending form a blocking-mode one.
ModeCheck(isAsyncForm) == use_async = isAsyncForm

GetHeaders_defaultBearer ==
    [Authorization |-> "bearer" \o " " \o token, ContentType |-> "application/json"]

\* _get_headers, once the token check has passed:
\* f"{token_type} {self.token}" with the stored token type
GetHeaders ==
    [Authorization |-> token_type \o " " \o token, ContentType |-> "application/json"]

AuthHeaders == [ContentType |-> "application/x-www-form-urlencoded"]

\* What happens before a fetch sends anything: the mode check, then the
\* lookup of self.session.get, then _get_headers' token check.
Precheck(isAsyncForm) ==
    IF ~ModeCheck(isAsyncForm) THEN "RuntimeError"
    ELSE IF session = None THEN "AttributeError"
    ELSE IF ~Truthy(token) THEN "ValueError"
    ELSE "send"

\* The URL below base_url, as its path segments.
Url(op, arg) ==
    CASE op = "authenticate" -> <<"oauth", "token">>
      [] op = "get_identity" -> <<"stet", "identity">>
      [] op = "get_accounts" -> <<"stet", "account">>
      [] op = "get_account" -> <<"stet", "account", arg>>
      [] op = "get_balances" -> <<"stet", "account", arg, "balance">>
      [] op = "get_transactions" -> <<"stet", "account", arg, "transaction">>

RaiseForStatus_never(code) == "ok"

RaiseForStatus_only5xx(code) == IF code >= 500 THEN "HTTPError" ELSE "ok"

\* response.raise_for_status()
RaiseForStatus(code) == IF code >= 400 THEN "HTTPError" ELSE "ok"

\* raise_for_status followed by response.json()
Decode(resp) ==
    IF RaiseForStatus(resp.code) # "ok" THEN RaiseForStatus(resp.code)
    ELSE IF resp.body = <<>> THEN "DecodeError"
    ELSE "ok"

\* The names the error kinds have in the design document.
ModeMismatch == "RuntimeError"
NotAuthenticated == "ValueError"
RequestFailed == "HTTPError"

Request(op, arg, headers, target, resp) ==
    [op |-> op, arg |-> arg, url |-> Url(op, arg), headers |-> headers,
     target |-> target, resp |-> resp]

Call(op, isAsyncForm, status, value) ==
    [op |-> op, form |-> isAsyncForm, status |-> status, value |-> value]

Running == cpc \in {"identity", "accounts", "balances", "transactions"}

\* A new call starts only when the caller is not inside a collect call, and
\* the model does not follow calls on a transport that was closed.
CanCall == ~Running /\ session # "closed"

NoCollect ==
    /\ cpc' = "idle"
    /\ ci' = 1
    /\ identity' = <<>>
    /\ accounts' = <<>>
    /\ returned' = <<>>

----------------------------------------------------------------------------
(* Initial state: BankingAPIClient.__init__ *)

Init ==
    /\ use_async \in BOOLEAN
    /\ session = None
    /\ token = None
    /\ token_type = "bearer"
    /\ scope = "none"
    /\ cpc = "idle"
    /\ ci = 1
    /\ identity = <<>>
    /\ accounts = <<>>
    /\ returned = <<>>
    /\ log = <<>>
    /\ outcome = Call("none", FALSE, "none", <<>>)

----------------------------------------------------------------------------
(* The scoped-use block *)

EnterSession_always(isAsyncForm) == "open"

\* __enter__ / __aenter__: the transport is acquired only by the entry of
\* the instance's own mode.
EnterSession(isAsyncForm) == IF use_async = isAsyncForm THEN "open" ELSE session

EnterMode_assign(isAsyncForm) == isAsyncForm

\* __enter__ / __aenter__ read self.use_async and leave it as it is.
EnterMode(isAsyncForm) == use_async

\* __enter__ (isAsyncForm = FALSE) and __aenter__ (isAsyncForm = TRUE)
Enter(isAsyncForm) ==
    /\ scope = "none"
    /\ ~Running
    /\ scope' = IF isAsyncForm THEN "async with" ELSE "with"
    /\ session' = EnterSession(isAsyncForm)
    /\ use_async' = EnterMode(isAsyncForm)
    /\ outcome' = Call("enter", isAsyncForm, "ok", <<>>)
    /\ log' = <<>>
    /\ NoCollect
    /\ UNCHANGED <<token, token_type>>

\* The exception that is leaving the block when __exit__ runs: none, or the
\* one the last call in the block ended with (when the caller did not catch it).
ExcTypes ==
    {None} \cup (IF outcome.status \in {"ok", "none", "running"} THEN {}
                 ELSE {outcome.status})

ExitSession_cleanOnly(isAsyncForm, exc_type) ==
    IF exc_type = None /\ session # None /\ use_async = isAsyncForm THEN "closed"
    ELSE session

\* __exit__ / __aexit__: self.session.close() when there is a session and
\* the exit is the one of the instance's own mode; exc_type is not looked at.
ExitSession(isAsyncForm, exc_type) ==
    IF session # None /\ use_async = isAsyncForm THEN "closed" ELSE session

\* __exit__ and __aexit__.  Both return None, so an exception that is
\* leaving the block goes on to the caller: the block ends with it.
Exit(isAsyncForm, exc_type) ==
    /\ scope = (IF isAsyncForm THEN "async with" ELSE "with")
    /\ ~Running
    /\ scope' = "none"
    /\ session' = ExitSession(isAsyncForm, exc_type)
    /\ outcome' = Call("exit", isAsyncForm,
                       IF exc_type = None THEN "ok" ELSE exc_type, <<>>)
    /\ log' = <<>>
    /\ NoCollect
    /\ UNCHANGED <<use_async, token, token_type>>

----------------------------------------------------------------------------
(* authenticate / authenticate_async *)

\* self.token = data.get("access_token")
AuthToken(data) == Get(data, "access_token", None)

AuthTokenType_keep(data) == Get(data, "token_type", token_type)

\* self.token_type = data.get("token_type", "bearer")
AuthTokenType(data) == Get(data, "token_type", "bearer")

AuthStores_beforeCheck(resp) == resp.body # <<>>

\* Whether authenticate reaches its two assignments: they come after
\* response.raise_for_status() and response.json().
AuthStores(resp) == Decode(resp) = "ok"

Authenticate(isAsyncForm) ==
    /\ CanCall
    /\ NoCollect
    /\ UNCHANGED <<use_async, session, scope>>
    /\ IF ~ModeCheck(isAsyncForm) THEN
           /\ outcome' = Call("authenticate", isAsyncForm, "RuntimeError", <<>>)
           /\ log' = <<>>
           /\ UNCHANGED <<token, token_type>>
       ELSE IF session = None THEN
           /\ outcome' = Call("authenticate", isAsyncForm, "AttributeError", <<>>)
           /\ log' = <<>>
           /\ UNCHANGED <<token, token_type>>
       ELSE \E resp \in Responses("authenticate") :
           /\ log' = <<Request("authenticate", None, AuthHeaders, 0, <<resp>>)>>
           /\ token' = IF AuthStores(resp) THEN AuthToken(resp.body[1]) ELSE token
           /\ token_type' = IF AuthStores(resp) THEN AuthTokenType(resp.body[1])
                            ELSE token_type
           /\ outcome' = IF Decode(resp) = "ok"
                         THEN Call("authenticate", isAsyncForm, "ok", <<token'>>)
                         ELSE Call("authenticate", isAsyncForm, Decode(resp), <<>>)

----------------------------------------------------------------------------
(* The five fetches, each in its blocking and its suspending form *)

Args(op) ==
    IF op \in {"get_account", "get_balances", "get_transactions"} THEN AccountIds
    ELSE {None}

FetchToken_clearOn401(resp) == IF resp.code = 401 THEN None ELSE token

\* self.token after a get_* call that received resp: no get_* assigns it.
FetchToken(resp) == token

Fetch(op, isAsyncForm, arg) ==
    /\ CanCall
    /\ NoCollect
    /\ UNCHANGED <<use_async, session, token_type, scope>>
    /\ IF Precheck(isAsyncForm) # "send" THEN
           /\ outcome' = Call(op, isAsyncForm, Precheck(isAsyncForm), <<>>)
           /\ log' = <<>>
           /\ UNCHANGED token
       ELSE \E resp \in Responses(op) :
           /\ log' = <<Request(op, arg, GetHeaders, 0, <<resp>>)>>
           /\ token' = FetchToken(resp)
           /\ outcome' = Call(op, isAsyncForm, Decode(resp),
                              IF Decode(resp) = "ok" THEN resp.body ELSE <<>>)

----------------------------------------------------------------------------
(* BankingDataCollector.collect_all_data / collect_all_data_async *)

\* The requests that were issued and have not completed.
InFlight == {i \in DOMAIN log : log[i].resp = <<>>}

Awaited_gather == TRUE

\* A statement runs only when the call before it has returned: the blocking
\* form returns from each get_*, the suspending form awaits each get_*_async.
Awaited == InFlight = {}

NextPc_transactionsFirst(pc, i) ==
    CASE pc = "identity" -> [pc |-> "accounts", ci |-> i]
      [] pc = "accounts" -> [pc |-> "transactions", ci |-> 1]
      [] pc = "transactions" -> [pc |-> "balances", ci |-> i]
      [] pc = "balances" -> [pc |-> "transactions", ci |-> i + 1]

\* The statement after the fetch at pc: identity, accounts, then in the loop
\* over accounts the balances and the transactions of one account after the other.
NextPc(pc, i) ==
    CASE pc = "identity" -> [pc |-> "accounts", ci |-> i]
      [] pc = "accounts" -> [pc |-> "balances", ci |-> 1]
      [] pc = "balances" -> [pc |-> "transactions", ci |-> i]
      [] pc = "transactions" -> [pc |-> "balances", ci |-> i + 1]

\* The gateway operation the statement at pc calls.
OpAt(pc) ==
    CASE pc = "identity" -> "get_identity"
      [] pc = "accounts" -> "get_accounts"
      [] pc = "balances" -> "get_balances"
      [] pc = "transactions" -> "get_transactions"

AttachKey_bothBalances(op) == "balances"

CalleeForm_blockingBalances(pc, isAsyncForm) ==
    IF pc = "balances" THEN FALSE ELSE isAsyncForm

\* The form of the gateway operation the statement at pc calls:
\* collect_all_data calls the blocking get_*, collect_all_data_async the
\* get_*_async.
CalleeForm(pc, isAsyncForm) == isAsyncForm

\* The key under which the loop body stores the value of a fetch.
AttachKey(op) == IF op = "get_balances" THEN "balances" ELSE "transactions"

\* account["balances"] = ... / account["transactions"] = ... on the
\* account at position i of the list
Attach(list, i, op, val) ==
    [list EXCEPT ![i] = SetItem(list[i], AttachKey(op), val)]

InLoop == cpc \in {"balances", "transactions"}

\* The statement that calls the gateway operation op.
PcOf(op) ==
    CASE op = "get_identity" -> "identity"
      [] op = "get_accounts" -> "accounts"
      [] op = "get_balances" -> "balances"
      [] op = "get_transactions" -> "transactions"

AfterFailure_retry(req, i) ==
    [pc |-> PcOf(req.op), ci |-> IF req.target = 0 THEN i ELSE req.target]

\* Where the collect call is after the get_* call of request req raised:
\* nothing in the body catches the exception, the call is over.
AfterFailure(req, i) == [pc |-> "failed", ci |-> i]

CollectStart(isAsyncForm) ==
    /\ CanCall
    /\ log' = <<>>
    /\ ci' = 1
    /\ identity' = <<>>
    /\ accounts' = <<>>
    /\ returned' = <<>>
    /\ UNCHANGED <<use_async, session, token, token_type, scope>>
    /\ IF ~ModeCheck(isAsyncForm) THEN
           /\ cpc' = "failed"
           /\ outcome' = Call("collect", isAsyncForm, "RuntimeError", <<>>)
       ELSE
           /\ cpc' = "identity"
           /\ outcome' = Call("collect", isAsyncForm, "running", <<>>)

\* The collect call reaches its next get_* call: the call's checks run and,
\* when they pass, the request is sent.
CollectIssue ==
    /\ Running
    /\ Awaited
    /\ InLoop => accounts # <<>> /\ ci <= Len(accounts[1])
    /\ UNCHANGED <<use_async, session, token, token_type, scope, identity,
                   accounts, returned>>
    /\ IF Precheck(CalleeForm(cpc, outcome.form)) # "send" THEN
           /\ cpc' = "failed"
           /\ outcome' = [outcome EXCEPT
                             !.status = Precheck(CalleeForm(cpc, outcome.form))]
           /\ UNCHANGED <<ci, log>>
       ELSE
           /\ log' = Append(log,
                  Request(OpAt(cpc),
                          IF InLoop THEN Get(accounts[1][ci], "id", None) ELSE None,
                          GetHeaders,
                          IF InLoop THEN ci ELSE 0,
                          <<>>))
           /\ cpc' = NextPc(cpc, ci).pc
           /\ ci' = NextPc(cpc, ci).ci
           /\ UNCHANGED outcome

\* The response to a request of the collect call arrives: the get_* call
\* raises or returns its value, which the collect call stores.
CollectComplete ==
    /\ Running
    /\ \E i \in InFlight : \E resp \in Responses(log[i].op) :
        /\ log' = [log EXCEPT ![i].resp = <<resp>>]
        /\ token' = FetchToken(resp)
        /\ UNCHANGED <<use_async, session, token_type, scope>>
        /\ IF Decode(resp) # "ok" THEN
               /\ cpc' = AfterFailure(log[i], ci).pc
               /\ ci' = AfterFailure(log[i], ci).ci
               /\ outcome' = IF AfterFailure(log[i], ci).pc = "failed"
                             THEN [outcome EXCEPT !.status = Decode(resp)]
                             ELSE outcome
               /\ UNCHANGED <<identity, accounts, returned>>
           ELSE
               /\ UNCHANGED <<cpc, ci, outcome>>
               /\ CASE log[i].op = "get_identity" ->
                         /\ identity' = resp.body
                         /\ UNCHANGED <<accounts, returned>>
                    [] log[i].op = "get_accounts" ->
                         /\ accounts' = resp.body
                         /\ returned' = resp.body
                         /\ UNCHANGED identity
                    [] OTHER ->
                         /\ accounts' = <<Attach(accounts[1], log[i].target,
                                                 log[i].op, resp.body[1])>>
                         /\ UNCHANGED <<identity, returned>>

LoopDone_offByOne(i, n) == i > n + 1

\* `for account in accounts` ends when position i is past the n accounts.
LoopDone(i, n) == i > n

\* The loop is over: return {"identity": identity, "accounts": accounts}
CollectReturn ==
    /\ InLoop
    /\ Awaited
    /\ accounts # <<>>
    /\ LoopDone(ci, Len(accounts[1]))
    /\ cpc' = "done"
    /\ outcome' = [outcome EXCEPT !.status = "ok",
                       !.value = <<[identity |-> identity[1], accounts |-> accounts[1]]>>]
    /\ UNCHANGED <<use_async, session, token, token_type, scope, ci, identity,
                   accounts, returned, log>>

----------------------------------------------------------------------------

Next ==
    \/ \E f \in BOOLEAN : Enter(f)
    \/ \E f \in BOOLEAN : \E exc \in ExcTypes : Exit(f, exc)
    \/ \E f \in BOOLEAN : Authenticate(f)
    \/ \E op \in FetchOps, f \in BOOLEAN : \E arg \in Args(op) : Fetch(op, f, arg)
    \/ \E f \in BOOLEAN : CollectStart(f)
    \/ CollectIssue
    \/ CollectComplete
    \/ CollectReturn

Spec == Init /\ [][Next]_vars

\* The collect call keeps running: its next statement is executed, every
\* request it sent is answered in the end, with a value or an error, and the
\* return statement is executed when the loop is over.
FairSpec ==
    /\ Spec
    /\ WF_vars(CollectIssue)
    /\ WF_vars(CollectComplete)
    /\ WF_vars(CollectReturn)

----------------------------------------------------------------------------
(* Properties of the collect call *)

IsPrefix(s, t) == Len(s) <= Len(t) /\ \A i \in 1..Len(s) : s[i] = t[i]

RECURSIVE LoopRequests(_, _)
LoopRequests(accs, k) ==
    IF k > Len(accs) THEN <<>>
    ELSE <<<<"get_balances", Get(accs[k], "id", None), k>>,
           <<"get_transactions", Get(accs[k], "id", None), k>>>>
         \o LoopRequests(accs, k + 1)

\* The requests a collect call over the account list accs is to issue, each as
\* <<operation, account id, position of the account in the list>>.
PlannedRequests(accs) ==
    <<<<"get_identity", None, 0>>, <<"get_accounts", None, 0>>>> \o LoopRequests(accs, 1)

IssuedRequests == [i \in 1..Len(log) |-> <<log[i].op, log[i].arg, log[i].target>>]

\* A completed request whose response makes the fetch fail.
FailedAt(i) ==
    /\ log[i].resp # <<>>
    /\ log[i].resp[1].code >= 400 \/ log[i].resp[1].body = <<>>

\* C1: at every moment of a collect call the requests issued so far are the
\* first ones of: identity, account list, then per account of the returned
\* list, in its order, balances then transactions; every request but the
\* newest has completed when the newest is issued; and a call that returns a
\* result has issued all of them.
C1_RequestOrder ==
    outcome.op = "collect" =>
        /\ IsPrefix(IssuedRequests,
                    PlannedRequests(IF returned = <<>> THEN <<>> ELSE returned[1]))
        /\ returned = <<>> => Len(log) <= 2
        /\ \A i \in 1..(Len(log) - 1) : log[i].resp # <<>>
        /\ outcome.status = "ok" => IssuedRequests = PlannedRequests(returned[1])

C1_Witness ==
    /\ outcome.op = "collect"
    /\ outcome.status = "ok"
    /\ Len(log) = 2 + 2 * MaxAccounts
    /\ log[3].arg = returned[1][1]["id"]
    /\ log[4].arg = returned[1][1]["id"]
    /\ log[5].arg = returned[1][2]["id"]
    /\ log[3].arg # log[5].arg

\* C2: a collect call in which a fetch fails (a non-2xx response or an
\* undecodable body to any of its requests, or a check that fails before the
\* request) ends with that failure and returns no result.
C2_FailureGivesNoResult ==
    outcome.op = "collect" =>
        /\ \A i \in DOMAIN log :
              FailedAt(i) =>
                  /\ cpc = "failed"
                  /\ outcome.status =
                         (IF log[i].resp[1].code >= 400 THEN "HTTPError" ELSE "DecodeError")
                  /\ i = Len(log)
        /\ outcome.status # "ok" => outcome.value = <<>>
        /\ cpc = "failed" => outcome.status \notin {"ok", "running"}

\* The balances fetch of the second of three accounts fails.
C2_Witness ==
    /\ outcome.op = "collect"
    /\ cpc = "failed"
    /\ returned # <<>>
    /\ Len(returned[1]) = 3
    /\ Len(log) = 5
    /\ log[5].op = "get_balances"
    /\ log[5].target = 2
    /\ FailedAt(5)
    /\ outcome.value = <<>>

\* C3: every account of a returned result has the keys balances and
\* transactions, each holding the value that the balances / transactions
\* request for that account's id returned.
C3_BothKeysExact ==
    (outcome.op = "collect" /\ outcome.status = "ok") =>
        LET res == outcome.value[1].accounts
        IN  \A k \in 1..Len(res) :
              /\ "balances" \in DOMAIN res[k]
              /\ "transactions" \in DOMAIN res[k]
              /\ \E i \in DOMAIN log :
                    /\ log[i].op = "get_balances"
                    /\ log[i].target = k
                    /\ log[i].arg = Get(returned[1][k], "id", None)
                    /\ log[i].resp[1].body = <<res[k]["balances"]>>
              /\ \E i \in DOMAIN log :
                    /\ log[i].op = "get_transactions"
                    /\ log[i].target = k
                    /\ log[i].arg = Get(returned[1][k], "id", None)
                    /\ log[i].resp[1].body = <<res[k]["transactions"]>>

C3_Witness ==
    /\ outcome.op = "collect"
    /\ outcome.status = "ok"
    /\ Len(outcome.value[1].accounts) >= 2
    /\ outcome.value[1].accounts[1]["balances"] = <<>>
    /\ outcome.value[1].accounts[1]["transactions"] # <<>>
    /\ outcome.value[1].accounts[2]["balances"] # <<>>
    /\ outcome.value[1].accounts[2]["transactions"] = <<>>

\* C4: no account record ever carries exactly one of the keys balances and
\* transactions.
C4_NoPartialAccount ==
    accounts # <<>> =>
        \A k \in 1..Len(accounts[1]) :
            ("balances" \in DOMAIN accounts[1][k])
                <=> ("transactions" \in DOMAIN accounts[1][k])

\* C5: the account list that get_accounts returned, and the records in it,
\* stay as they were returned.
C5_ReturnedAccountsUnchanged ==
    returned # <<>> => accounts = returned

----------------------------------------------------------------------------
(* Properties of the gateway *)

ModeCheckedOps == FetchOps \cup {"authenticate", "collect"}

\* C6: an authenticated operation of the instance's own mode, and collect,
\* on a gateway that holds no token, ends with the not-authenticated error
\* and has sent nothing.
C6_NotAuthenticatedBeforeRequest ==
    (/\ outcome.op \in FetchOps \cup {"collect"}
     /\ outcome.form = use_async
     /\ outcome.status # "running"
     /\ ~Truthy(token))
        => (outcome.status = NotAuthenticated /\ log = <<>>)

\* C7: after an authenticate call that returned, the stored token is the
\* response's access_token, the stored token type is the response's
\* token_type or "bearer" when the response has none, and the call returned
\* the stored token.
C7_SessionFromResponse ==
    (outcome.op = "authenticate" /\ outcome.status = "ok") =>
        LET data == log[1].resp[1].body[1]
        IN  /\ token = (IF "access_token" \in DOMAIN data THEN data["access_token"] ELSE None)
            /\ token_type = (IF "token_type" \in DOMAIN data THEN data["token_type"] ELSE "bearer")
            /\ outcome.value = <<token>>

C7_Witness ==
    /\ outcome.op = "authenticate"
    /\ outcome.status = "ok"
    /\ "token_type" \notin DOMAIN log[1].resp[1].body[1]
    /\ token = "t2"
    /\ token_type = "bearer"

\* C8: an authenticate call whose response is non-2xx, or 2xx with a body
\* that has no access_token, does not return normally.
C8_AuthenticateFailsWithoutToken ==
    (/\ outcome.op = "authenticate"
     /\ log # <<>>
     /\ \/ log[1].resp[1].code >= 400
        \/ /\ log[1].resp[1].body # <<>>
           /\ "access_token" \notin DOMAIN log[1].resp[1].body[1])
        => outcome.status \notin {"ok"}

\* C9: a step that is a call of the form the instance's mode does not allow
\* ends with the mode-mismatch error, sends no request and leaves the
\* gateway's fields as they were.
C9_ModeMismatchFirst ==
    [][(outcome'.op \in ModeCheckedOps /\ outcome'.form # use_async)
          => (/\ outcome'.status = ModeMismatch
              /\ log' = <<>>
              /\ UNCHANGED <<use_async, session, token, token_type>>)]_vars

\* The mismatching call was made on a gateway that holds no token: the mode
\* error came, not the not-authenticated one.
C9_Witness ==
    /\ outcome.op \in FetchOps
    /\ outcome.form # use_async
    /\ outcome.status = ModeMismatch
    /\ ~Truthy(token)
    /\ session = "open"

\* C10: during a suspending-mode collect call at most one of its requests is
\* in flight.
C10_OneInFlight ==
    (outcome.op = "collect" /\ outcome.form) => Cardinality(InFlight) <= 1

C10_Witness ==
    /\ outcome.op = "collect"
    /\ outcome.form
    /\ Cardinality(InFlight) = 1
    /\ Len(log) = 2 + 2 * MaxAccounts
    /\ log[Len(log)].op = "get_transactions"

----------------------------------------------------------------------------
(* Properties of the scoped-use block and of the session *)

\* C11: whenever a block is left while the transport is acquired, on normal
\* completion or with an exception of a call made in the block, the
\* transport is closed by that exit, and the exit returns None, so that the
\* exception goes on to the caller.
C11_TransportClosedOnExit ==
    [][(outcome'.op = "exit" /\ session = "open")
          => (/\ session' = "closed"
              /\ outcome'.value = <<>>
              /\ outcome'.status \in {"ok", outcome.status})]_vars

\* A block was left with the error of a failed request and the transport is closed.
C11_Witness ==
    /\ outcome.op = "exit"
    /\ outcome.form = use_async
    /\ outcome.status = RequestFailed
    /\ session = "closed"

\* The number of requests of the call for operation op on the account at
\* position k of the list (k = 0 for identity and the account list).
Count(op, k) == Cardinality({i \in DOMAIN log : log[i].op = op /\ log[i].target = k})

\* C12: a collect call sends each of its requests once: never more than one
\* identity, one account-list and, per account, one balances and one
\* transactions request; exactly 2 + 2n requests when it returns a result
\* over n accounts; and a failing request is the last one of the call.
C12_NoRetry ==
    outcome.op = "collect" =>
        LET n == IF returned = <<>> THEN 0 ELSE Len(returned[1])
        IN  /\ Count("get_identity", 0) <= 1
            /\ Count("get_accounts", 0) <= 1
            /\ \A k \in 1..n : Count("get_balances", k) <= 1
                               /\ Count("get_transactions", k) <= 1
            /\ Len(log) <= 2 + 2 * n
            /\ outcome.status = "ok" =>
                  /\ Len(log) = 2 + 2 * n
                  /\ Count("get_identity", 0) = 1
                  /\ Count("get_accounts", 0) = 1
                  /\ \A k \in 1..n : Count("get_balances", k) = 1
                                     /\ Count("get_transactions", k) = 1
            /\ \A i \in DOMAIN log : FailedAt(i) => i = Len(log) /\ ~Running

\* The transactions fetch of the first account failed and nothing followed it.
C12_Witness ==
    /\ outcome.op = "collect"
    /\ cpc = "failed"
    /\ Len(log) = 4
    /\ log[4].op = "get_transactions"
    /\ log[4].resp[1].code = 401
    /\ Len(returned[1]) >= 2

----------------------------------------------------------------------------
(* The two forms of collect *)

\* The responses the call has received, in the order of its requests.
ResponsesSoFar == [i \in DOMAIN log |-> log[i].resp[1]]

Bad(resp) == resp.code >= 400 \/ resp.body = <<>>

\* How a collect call that received the responses rs, one per request, is to
\* have ended, whichever form it is: with the error of the first failing
\* response; with the assembled result when identity, the account list and
\* both values of every account have arrived; not at all otherwise.
ExpectedOutcome(rs) ==
    IF \E i \in DOMAIN rs : Bad(rs[i]) THEN
        LET i == CHOOSE j \in DOMAIN rs : Bad(rs[j]) /\ \A h \in 1..(j - 1) : ~Bad(rs[h])
        IN  [status |-> IF rs[i].code >= 400 THEN "HTTPError" ELSE "DecodeError",
             value |-> <<>>, requests |-> i]
    ELSE IF Len(rs) >= 2 /\ Len(rs) = 2 + 2 * Len(rs[2].body[1]) THEN
        [status |-> "ok",
         value |-> <<[identity |-> rs[1].body[1],
                      accounts |-> [k \in 1..Len(rs[2].body[1]) |->
                          [key \in DOMAIN rs[2].body[1][k] \cup {"balances", "transactions"} |->
                              IF key = "balances" THEN rs[2 * k + 1].body[1]
                              ELSE IF key = "transactions" THEN rs[2 * k + 2].body[1]
                              ELSE rs[2].body[1][k][key]]]]>>,
         requests |-> Len(rs)]
    ELSE [status |-> "unfinished", value |-> <<>>, requests |-> Len(rs)]

----------------------------------------------------------------------------
(* The result of collect *)

\* The stub gateway of the round-trip scenario: identity {id: u1}, accounts
\* [{id: a1}, {id: a2}], balances [{amount: 100, currency: EUR}] and
\* transactions [] for each.
StubResponses ==
    /\ log[1].resp[1].body = <<[id |-> "u1"]>>
    /\ returned = <<(<<[id |-> "a1"], [id |-> "a2"]>>)>>
    /\ \A i \in 3..Len(log) :
          log[i].resp[1].body =
              (IF log[i].op = "get_balances"
               THEN <<(<<[amount |-> 100, currency |-> "EUR"]>>)>>
               ELSE <<(<<>>)>>)

StubResult ==
    [identity |-> [id |-> "u1"],
     accounts |-> <<[id |-> "a1",
                     balances |-> <<[amount |-> 100, currency |-> "EUR"]>>,
                     transactions |-> <<>>],
                    [id |-> "a2",
                     balances |-> <<[amount |-> 100, currency |-> "EUR"]>>,
                     transactions |-> <<>>]>>]

\* C14: a returned result has the keys identity and accounts; identity is
\* what the identity request returned; accounts has the length and the
\* order of the list the account-list request returned, each entry with
\* every field of the original and the two added keys; with the stub
\* gateway's responses it is the document of the round-trip scenario.
C14_ResultShape ==
    (outcome.op = "collect" /\ outcome.status = "ok") =>
        LET res == outcome.value[1]
            orig == returned[1]
        IN  /\ DOMAIN res = {"identity", "accounts"}
            /\ <<res.identity>> = log[1].resp[1].body
            /\ returned = log[2].resp[1].body
            /\ Len(res.accounts) = Len(orig)
            /\ \A k \in 1..Len(orig) :
                  /\ DOMAIN res.accounts[k]
                         = DOMAIN orig[k] \cup {"balances", "transactions"}
                  /\ \A key \in DOMAIN orig[k] : res.accounts[k][key] = orig[k][key]
            /\ StubResponses => res = StubResult

C14_Witness ==
    /\ outcome.op = "collect"
    /\ outcome.status = "ok"
    /\ StubResponses
    /\ outcome.value = <<StubResult>>

----------------------------------------------------------------------------
(* The mode and the session fields *)

\* C15: no step changes the instance's mode: scope entry and exit,
\* authenticate, the fetches and collect, ending well or with an error, all
\* leave use_async as the constructor set it.
C15_ModeFixed == [][use_async' = use_async]_vars

\* A suspending-mode instance went through a blocking `with` entry and a
\* refused blocking authenticate, and is still in suspending mode.
C15_Witness ==
    /\ use_async
    /\ scope = "with"
    /\ outcome.op = "authenticate"
    /\ outcome.form = FALSE
    /\ outcome.status = ModeMismatch

\* C16: every request of an authenticated operation carries exactly the
\* two headers Authorization, the stored token type, a space and the stored
\* token, and Content-Type application/json.
C16_RequestHeaders ==
    \A i \in DOMAIN log :
        log[i].op \in FetchOps =>
            /\ DOMAIN log[i].headers = {"Authorization", "ContentType"}
            /\ log[i].headers.Authorization = token_type \o " " \o token
            /\ log[i].headers.ContentType = "application/json"
            /\ (token_type = "mac" /\ token = "t2")
                   => log[i].headers.Authorization = "mac t2"
            /\ (token_type = "bearer" /\ token = "t1")
                   => log[i].headers.Authorization = "bearer t1"

\* A request sent with a token type other than the default.
C16_Witness ==
    /\ outcome.op = "get_balances"
    /\ log # <<>>
    /\ token_type = "mac"
    /\ log[1].headers.Authorization = "mac t2"

\* C17: a fetch whose request was answered with a non-2xx status ends with
\* the request-failed error, returns no value, and leaves the stored token
\* and token type as they were.
C17_RequestFailed ==
    [][(/\ outcome'.op \in FetchOps
        /\ log' # <<>>
        /\ log'[1].resp[1].code >= 400)
          => (/\ outcome'.status = RequestFailed
              /\ outcome'.value = <<>>
              /\ UNCHANGED <<token, token_type>>)]_vars

\* A transactions fetch answered 401 with a decodable body.
C17_Witness ==
    /\ outcome.op = "get_transactions"
    /\ log # <<>>
    /\ log[1].resp[1].code = 401
    /\ log[1].resp[1].body # <<>>
    /\ outcome.status = RequestFailed
    /\ token = "t1"

\* C18: a step of a fetch or of a collect call, whether the call succeeds or
\* fails, leaves the stored token, the token type and the transport handle
\* as they were.
C18_FetchesKeepSession ==
    [][outcome'.op \in FetchOps \cup {"collect"}
          => UNCHANGED <<token, token_type, session>>]_vars

\* A collect call ended by a 401 on a gateway that still holds its token.
C18_Witness ==
    /\ outcome.op = "collect"
    /\ cpc = "failed"
    /\ Len(log) >= 3
    /\ log[Len(log)].resp[1].code = 401
    /\ token = "t2"
    /\ token_type = "mac"
    /\ session = "open"

\* C19: an authenticate call answered with a non-2xx status ends with the
\* HTTP error and leaves the stored token and token type as they were.
C19_FailedAuthKeepsSession ==
    [][(/\ outcome'.op = "authenticate"
        /\ log' # <<>>
        /\ log'[1].resp[1].code >= 400)
          => (/\ outcome'.status = "HTTPError"
              /\ outcome'.value = <<>>
              /\ UNCHANGED <<token, token_type>>)]_vars

\* A re-authentication was refused, with a body that names another token,
\* on a gateway that holds a token from before.
C19_Witness ==
    /\ outcome.op = "authenticate"
    /\ outcome.status = "HTTPError"
    /\ log[1].resp[1].body # <<>>
    /\ Get(log[1].resp[1].body[1], "access_token", None) = "t2"
    /\ token = "t1"
    /\ token_type = "mac"
    /\ Precheck(use_async) = "send"

\* C20: entering the block of the other mode ends without error and leaves
\* the transport handle as it was, not acquired; leaving that block leaves
\* the handle as it was too, closing nothing.
C20_WrongModeBlock ==
    [][(outcome'.op \in {"enter", "exit"} /\ outcome'.form # use_async)
          => (/\ session' = session
              /\ session' # "open"
              /\ outcome'.op = "enter" => outcome'.status = "ok"
              /\ outcome'.value = <<>>)]_vars

\* A blocking-mode instance went through an `async with` block and its
\* transport handle is still unset.
C20_Witness ==
    /\ ~use_async
    /\ outcome.op = "exit"
    /\ outcome.form
    /\ outcome.status = "ok"
    /\ scope = "none"
    /\ session = None

\* C21: on a gateway whose transport is acquired, a fetch of the
\* instance's own mode, or collect, ends with the not-authenticated error
\* and sends nothing exactly when the stored token is unset or the empty
\* string, which is how an authenticate call that returned on a response
\* with an empty or absent access_token leaves it; and a gateway that holds
\* a non-empty token has its transport acquired.
C21_AuthenticatedIffToken ==
    /\ (/\ outcome.op \in FetchOps \cup {"collect"}
        /\ outcome.form = use_async
        /\ outcome.status # "running"
        /\ session # None)
           => /\ token \in {None, ""}
                    => (outcome.status = NotAuthenticated /\ log = <<>>)
              /\ token \notin {None, ""}
                    => (outcome.status # NotAuthenticated /\ log # <<>>)
    /\ (outcome.op = "authenticate" /\ outcome.status = "ok" /\ log # <<>>)
           => LET data == log[1].resp[1].body[1]
              IN  ("access_token" \notin DOMAIN data \/ data["access_token"] = "")
                      => token \in {None, ""}
    /\ token \notin {None, ""} => session # None

\* A fetch refused on a gateway whose last authenticate stored the empty
\* token of a 2xx response.
C21_Witness ==
    /\ token = ""
    /\ session = "open"
    /\ outcome.op = "get_accounts"
    /\ outcome.form = use_async
    /\ outcome.status = NotAuthenticated
    /\ log = <<>>

----------------------------------------------------------------------------
(* Termination of collect *)

\* C22: provided every request is answered in the end, a running collect
\* call ends: with a result, after one balances and one transactions
\* request for every account of the list, or with an error.
C22_CollectTerminates ==
    (outcome.op = "collect" /\ Running)
        ~> \/ /\ cpc = "done"
              /\ outcome.status = "ok"
              /\ Len(log) = 2 + 2 * Len(returned[1])
           \/ /\ cpc = "failed"
              /\ outcome.status \notin {"ok", "running"}
              /\ outcome.value = <<>>

\* A blocking collect call over the longest list has returned.
C22_Witness ==
    /\ outcome.op = "collect"
    /\ ~outcome.form
    /\ cpc = "done"
    /\ Len(returned[1]) = MaxAccounts
    /\ ci = MaxAccounts + 1
    /\ InFlight = {}

====
